---------------------------- MODULE Spec2Model ----------------------------
(***************************************************************************)
(* Model of json_analysis.py: the parse tree built from JSON documents,    *)
(* its merge algorithm and the brief report.                               *)
(*                                                                         *)
(* Python objects live in a heap (a sequence of node records, a node's id  *)
(* is its index) so that two lists holding the same object are visible.    *)
(* Python strings are sequences of symbols: "$" and "." are symbols of     *)
(* their own, every other symbol is a run of characters holding neither    *)
(* ("$int" is <<"$", "int">>, "" is <<>>).                                 *)
(***************************************************************************)
EXTENDS Integers, Sequences, FiniteSets, TLC

VARIABLES
    heap,        \* the Python objects: nodes, and what the DEBUG assertions would find
    list_parse,  \* main(): the root node (its id in heap)
    docs,        \* main(): the documents the root has consumed, in order
    result,      \* main(): the report, once made
    reg,         \* a caller of the classes: the nodes it holds, by name (0: none)
    hist,        \* history: the values classified and merged into each held node
    sound        \* history: no node under the held node was changed through
                 \* another held node

vars == <<heap, list_parse, docs, result, reg, hist, sound>>

---------------------------------------------------------------------------
(* Decoded JSON values, tagged with the Python type json.loads gives them. *)

VBool(b) == [kind |-> "bool", val |-> b]
VInt(n) == [kind |-> "int", val |-> n]
VFloat(n) == [kind |-> "float", val |-> n]
VStr(s) == [kind |-> "str", val |-> s]
VNull == [kind |-> "null", val |-> 0]
VList(items) == [kind |-> "list", val |-> items]
VDict(pairs) == [kind |-> "dict", val |-> pairs]
\* the generator of documents main() hands to BaseParse
VGen(items) == [kind |-> "gen", val |-> items]

\* isinstance(value, t): bool is a subclass of int in Python
IsInstance(v, t) ==
    CASE t = "int" -> v.kind \in {"int", "bool"}
      [] t = "list" -> v.kind \in {"list", "gen"}
      [] OTHER -> v.kind = t

\* Python truthiness of a value ("if value")
Truthy(v) ==
    CASE v.kind = "bool" -> v.val
      [] v.kind \in {"int", "float"} -> v.val # 0
      [] v.kind \in {"str", "list", "dict"} -> v.val # <<>>
      [] v.kind = "gen" -> TRUE
      [] OTHER -> FALSE

---------------------------------------------------------------------------
(* The heap of parse nodes.                                                *)

NoVal == [kind |-> "unset", val |-> 0]

Node(cls, lhs, falsy) ==
    [cls |-> cls, lhs |-> lhs, count |-> 1, falsy |-> falsy,
     val |-> NoVal, kids |-> <<>>]

EmptyHeap == [nodes |-> <<>>, typeErr |-> FALSE, lhsErr |-> FALSE]

Alloc(H, node) ==
    [h |-> [H EXCEPT !.nodes = Append(@, node)], id |-> Len(H.nodes) + 1]

ValueClasses == {"BoolParse", "IntParse", "FloatParse", "StrParse", "NoneParse"}

ValueNewSwapped(v) ==
    IF IsInstance(v, "int") THEN "IntParse"
    ELSE IF IsInstance(v, "bool") THEN "BoolParse"
    ELSE IF IsInstance(v, "float") THEN "FloatParse"
    ELSE IF IsInstance(v, "str") THEN "StrParse"
    ELSE "NoneParse"

\* ValueParse.__new__: the class of a scalar, bool tested before int
ValueNew(v) ==
    IF IsInstance(v, "bool") THEN "BoolParse"
    ELSE IF IsInstance(v, "int") THEN "IntParse"
    ELSE IF IsInstance(v, "float") THEN "FloatParse"
    ELSE IF IsInstance(v, "str") THEN "StrParse"
    ELSE "NoneParse"

\* BaseParse.__new__
BaseNew(v) ==
    IF IsInstance(v, "list") THEN "ListParse"
    ELSE IF IsInstance(v, "dict") THEN "DictParse"
    ELSE ValueNew(v)

\* BaseParse._set_meta: "$count_falsy": 0 if value else 1
SetMeta(v) == IF Truthy(v) THEN 0 ELSE 1

\* get_type()
GetType(n) ==
    CASE n.cls = "BoolParse" -> <<"$", "bool">>
      [] n.cls = "IntParse" -> <<"$", "int">>
      [] n.cls = "FloatParse" -> <<"$", "float">>
      [] n.cls = "StrParse" -> <<"$", "str">>
      [] n.cls = "NoneParse" -> <<"$", "none">>
      [] n.cls = "ListParse" -> <<"$", "list">>
      [] n.cls = "DictParse" -> <<"$", "dict">>
      [] OTHER -> n.lhs

CompAllSame(n, mode) == IF mode = "lhs" THEN n.lhs ELSE <<"object">>

\* the comp argument of merge_list: type(o) by default, o.get_type() for
\* the fields of a DictParse
Comp(n, mode) == IF mode = "lhs" THEN n.lhs ELSE <<n.cls>>

---------------------------------------------------------------------------
(* Dictionaries built by list_to_dict / merge_dict: sequences of           *)
(* <<key, node id>> in insertion order.                                    *)

HasKey(d, k) == \E i \in 1..Len(d) : d[i][1] = k
Lookup(d, k) == d[CHOOSE i \in 1..Len(d) : d[i][1] = k][2]
\* dict_[k] = x
Put(d, k, x) ==
    IF HasKey(d, k)
    THEN [i \in 1..Len(d) |-> IF d[i][1] = k THEN <<k, x>> ELSE d[i]]
    ELSE Append(d, <<k, x>>)

RECURSIVE ListToDict(_, _, _)
ListToDict(H, ids, mode) ==
    IF ids = <<>> THEN <<>>
    ELSE LET n == Len(ids)
         IN Put(ListToDict(H, SubSeq(ids, 1, n - 1), mode),
                Comp(H.nodes[ids[n]], mode), ids[n])

RECURSIVE Update(_, _)
\* result.update(other)
Update(d, other) ==
    IF other = <<>> THEN d
    ELSE Update(Put(d, other[1][1], other[1][2]), Tail(other))

Values(d) == [i \in 1..Len(d) |-> d[i][2]]

---------------------------------------------------------------------------
(* Construction and merge.                                                 *)

RECURSIVE New(_, _), NewKeyValue(_, _, _), ListSetParse(_, _, _),
          DictSetParse(_, _, _), Merge(_, _, _), MergeParse(_, _, _),
          MergeCommon(_, _, _, _), ListSetParseItem(_, _, _)

MergeMetaNoFalsy(H, self, other) ==
    [H EXCEPT !.nodes[self].count = @ + H.nodes[other].count]

\* BaseParse._merge_meta
MergeMeta(H, self, other) ==
    [H EXCEPT !.nodes[self].count = @ + H.nodes[other].count,
              !.nodes[self].falsy = @ + H.nodes[other].falsy]

NumMergeParseKeep(a, b) == a

\* IntParse._merge_parse / FloatParse._merge_parse
NumMergeParse(a, b) == IF a.val > b.val THEN a ELSE b

ValueMergeParseLast(a, b) == IF Truthy(b) THEN b ELSE a

\* ValueParse._merge_parse
ValueMergeParse(a, b) == IF Truthy(a) THEN a ELSE b

\* the calls of cb(this[key], other[key]) for the keys of both dicts
MergeCommon(H, dthis, dother, i) ==
    IF i > Len(dthis) THEN H
    ELSE LET k == dthis[i][1]
         IN IF HasKey(dother, k)
            THEN MergeCommon(Merge(H, dthis[i][2], Lookup(dother, k)),
                             dthis, dother, i + 1)
            ELSE MergeCommon(H, dthis, dother, i + 1)

MergeDictDropOther(H, dthis, dother) ==
    [h |-> MergeCommon(H, dthis, dother, 1), res |-> dthis]

\* merge_dict: the keys of this, then the new keys of other; a key of both
\* keeps this's object, merged with other's
MergeDict(H, dthis, dother) ==
    [h |-> MergeCommon(H, dthis, dother, 1),
     res |-> [i \in 1..Len(Update(dthis, dother)) |->
                LET k == Update(dthis, dother)[i][1]
                IN IF HasKey(dthis, k) THEN <<k, Lookup(dthis, k)>>
                   ELSE Update(dthis, dother)[i]]]

\* merge_list
MergeList(H, this, other, mode) ==
    LET m == MergeDict(H, ListToDict(H, this, mode), ListToDict(H, other, mode))
    IN [h |-> m.h, res |-> Values(m.res)]

\* _merge_parse of each class
MergeParse(H, self, other) ==
    LET s == H.nodes[self]
        o == H.nodes[other]
    IN CASE s.cls \in {"IntParse", "FloatParse"} ->
              [H EXCEPT !.nodes[self].val = NumMergeParse(s.val, o.val)]
         [] s.cls \in {"BoolParse", "StrParse", "NoneParse"} ->
              [H EXCEPT !.nodes[self].val = ValueMergeParse(s.val, o.val)]
         [] OTHER ->
              LET m == MergeList(H, s.kids, o.kids,
                                 IF s.cls = "DictParse" THEN "lhs" ELSE "type")
              IN [m.h EXCEPT !.nodes[self].kids = m.res]

\* BaseParse.merge, with what check_same_type would assert under DEBUG
Merge(H, self, other) ==
    IF H.nodes[self].cls # H.nodes[other].cls
    THEN [H EXCEPT !.typeErr = TRUE]
    ELSE LET H1 == IF H.nodes[self].lhs # H.nodes[other].lhs
                   THEN [H EXCEPT !.lhsErr = TRUE] ELSE H
         IN MergeParse(MergeMeta(H1, self, other), self, other)

\* KeyValueParse(key, value)
NewKeyValue(H, key, v) ==
    LET a == Alloc(H, Node("KeyValueParse", key, SetMeta(v)))
        c == New(a.h, v)
    IN [h |-> [c.h EXCEPT !.nodes[a.id].kids = <<c.id>>], id |-> a.id]

\* DictParse._set_parse
DictSetParse(H, self, pairs) ==
    IF pairs = <<>> THEN H
    ELSE LET c == NewKeyValue(H, pairs[1][1], pairs[1][2])
         IN DictSetParse([c.h EXCEPT !.nodes[self].kids = Append(@, c.id)],
                         self, Tail(pairs))

ListSetParseItemAppend(H, self, item) ==
    LET c == New(H, item)
    IN [c.h EXCEPT !.nodes[self].kids = Append(@, c.id)]

\* one iteration of the loop of ListParse._set_parse
ListSetParseItem(H, self, item) ==
    IF Len(H.nodes[self].kids) = 0
    THEN LET c == New(H, item)
         IN [c.h EXCEPT !.nodes[self].kids = Append(@, c.id)]
    ELSE LET ip == New(H, VList(<<item>>))
         IN Merge(ip.h, self, ip.id)

\* ListParse._set_parse
ListSetParse(H, self, items) ==
    IF items = <<>> THEN H
    ELSE ListSetParse(ListSetParseItem(H, self, items[1]), self, Tail(items))

\* BaseParse(value): __new__ picks the class, __init__ sets meta then parse
New(H, v) ==
    LET cls == BaseNew(v)
        a == Alloc(H, Node(cls, <<>>, SetMeta(v)))
    IN CASE cls = "ListParse" -> [h |-> ListSetParse(a.h, a.id, v.val), id |-> a.id]
         [] cls = "DictParse" -> [h |-> DictSetParse(a.h, a.id, v.val), id |-> a.id]
         [] OTHER -> [h |-> [a.h EXCEPT !.nodes[a.id].val = v], id |-> a.id]

---------------------------------------------------------------------------
(* vars(): Python dicts are sequences of <<key, value>> in insertion order; *)
(* a nested dict is the value [kind |-> "map", val |-> pairs].             *)

VMap(pairs) == [kind |-> "map", val |-> pairs]
KCount == <<"$", "count">>
KFalsy == <<"$", "count_falsy">>
KParse == <<"$", "parse">>
KType == <<"$", "type">>
KKey == <<"$", "key">>

RECURSIVE Vars(_, _), KidVars(_, _)

\* ret_parse[child.get_type()] = child.vars(), over the children in order
KidVars(H, ids) ==
    IF ids = <<>> THEN <<>>
    ELSE LET n == Len(ids)
         IN Put(KidVars(H, SubSeq(ids, 1, n - 1)),
                GetType(H.nodes[ids[n]]), Vars(H, ids[n]))

\* vars() of each class
Vars(H, id) ==
    LET n == H.nodes[id]
        meta == << <<KCount, VInt(n.count)>>, <<KFalsy, VInt(n.falsy)>> >>
    IN CASE n.cls \in ValueClasses -> VMap(Append(meta, <<KParse, n.val>>))
         [] n.cls = "ListParse" ->
              VMap(<< <<KParse, VMap(KidVars(H, n.kids))>> >> \o meta)
         [] OTHER -> VMap(Append(meta, <<KParse, VMap(KidVars(H, n.kids))>>))

RECURSIVE FlatVars(_), FlatItems(_, _), PutPrefixed(_, _, _)

\* me["%s.%s" % (key, child_key)] = child_value, over the child's items
PutPrefixed(me, key, child) ==
    IF child = <<>> THEN me
    ELSE PutPrefixed(Put(me, key \o <<".">> \o child[1][1], child[1][2]),
                     key, Tail(child))

\* the loop of flat_vars over doc.items()
FlatItems(me, items) ==
    IF items = <<>> THEN me
    ELSE LET key == items[1][1]
             value == items[1][2]
         IN IF value.kind = "map"
            THEN LET c == FlatVars(value.val)
                 IN IF c.final
                    THEN FlatItems(Put(me, key, VMap(c.me)), Tail(items))
                    ELSE FlatItems(PutPrefixed(me, key, c.me), Tail(items))
            ELSE FlatItems(Put(me, key, value), Tail(items))

\* flat_vars: (me, not has_next_layer)
FlatVars(doc) ==
    [me |-> FlatItems(<<>>, doc),
     final |-> ~ \E i \in 1..Len(doc) : doc[i][2].kind = "map"]

RECURSIVE Split(_), Join(_), LStrip(_)

\* k.split(".")
Split(s) ==
    IF \A i \in 1..Len(s) : s[i] # "." THEN <<s>>
    ELSE LET i == CHOOSE j \in 1..Len(s) :
                      s[j] = "." /\ \A m \in 1..(j - 1) : s[m] # "."
         IN <<SubSeq(s, 1, i - 1)>> \o Split(SubSeq(s, i + 1, Len(s)))

\* ".".join(parts)
Join(parts) ==
    IF parts = <<>> THEN <<>>
    ELSE IF Len(parts) = 1 THEN parts[1]
    ELSE parts[1] \o <<".">> \o Join(Tail(parts))

\* node.lstrip("$")
LStrip(s) == IF s # <<>> /\ s[1] = "$" THEN LStrip(Tail(s)) ELSE s

StartsWithDollar(s) == s # <<>> /\ s[1] = "$"

RECURSIVE PathType(_), PathName(_)

\* path_type of brief_vars, over the nodes of k.split(".")
PathType(nodes) ==
    IF nodes = <<>> THEN <<>>
    ELSE IF nodes[1] = KParse THEN PathType(Tail(nodes))
    ELSE IF StartsWithDollar(nodes[1])
         THEN <<LStrip(nodes[1])>> \o PathType(Tail(nodes))
    ELSE PathType(Tail(nodes))

\* path_name of brief_vars
PathName(nodes) ==
    IF nodes = <<>> THEN <<>>
    ELSE IF nodes[1] = KParse THEN PathName(Tail(nodes))
    ELSE IF StartsWithDollar(nodes[1]) THEN PathName(Tail(nodes))
    ELSE <<nodes[1]>> \o PathName(Tail(nodes))

RECURSIVE BriefRows(_)

BriefRowsKeepEmpty(flat) ==
    IF flat = <<>> THEN <<>>
    ELSE LET k == flat[1][1]
             v == flat[1][2]
         IN IF v.kind = "map"
            THEN <<VMap(Put(Put(v.val, KType, VStr(Join(PathType(Split(k))))),
                            KKey, VStr(Join(PathName(Split(k))))))>>
                 \o BriefRows(Tail(flat))
            ELSE BriefRows(Tail(flat))

\* the loop of brief_vars over vars_flat.items()
BriefRows(flat) ==
    IF flat = <<>> THEN <<>>
    ELSE LET k == flat[1][1]
             v == flat[1][2]
         IN IF v.kind = "map" /\ v.val # <<>>
            THEN <<VMap(Put(Put(v.val, KType, VStr(Join(PathType(Split(k))))),
                            KKey, VStr(Join(PathName(Split(k))))))>>
                 \o BriefRows(Tail(flat))
            ELSE BriefRows(Tail(flat))

\* brief_vars
BriefVars(v) == BriefRows(FlatVars(v.val).me)

---------------------------------------------------------------------------
(* Bounds and inputs.                                                      *)

MaxDocs == 3
MaxHist == 3

A1 == <<"a">>
B1 == <<"b">>
DX == <<"$", "x">>

\* the documents main() reads
DocSet ==
    { VInt(1), VStr(A1),
      VList(<<>>), VList(<<VInt(1), VInt(2)>>), VList(<<VStr(A1), VNull, VInt(0)>>),
      VList(<<VList(<<VInt(3)>>), VList(<<VStr(A1)>>), VDict(<<>>)>>),
      VDict(<<>>), VDict(<< <<A1, VInt(1)>> >>), VDict(<< <<A1, VStr(A1)>> >>),
      VDict(<< <<A1, VInt(2)>>, <<B1, VBool(FALSE)>> >>),
      VDict(<< <<A1, VDict(<< <<B1, VFloat(1)>> >>)>> >>),
      VDict(<< <<DX, VInt(1)>> >>) }

\* the values a caller classifies
ApiSet ==
    { VBool(TRUE), VBool(FALSE), VInt(1), VInt(2), VFloat(0), VFloat(1),
      VStr(<<>>), VStr(A1), VStr(B1), VNull,
      VList(<<>>), VList(<<VStr(A1), VInt(2)>>),
      VList(<<VInt(1), VInt(0), VList(<<VStr(B1)>>)>>),
      VList(<<VList(<<>>), VList(<<VInt(1), VInt(2)>>)>>),
      VDict(<<>>), VDict(<< <<A1, VInt(1)>> >>),
      VDict(<< <<A1, VStr(A1)>>, <<B1, VList(<<VInt(1)>>)>> >>) }

RegSeq == <<"A", "B", "C">>
Regs == {RegSeq[i] : i \in 1..Len(RegSeq)}
NoReport == <<"none">>

---------------------------------------------------------------------------
(* Reading the heap.                                                       *)

RECURSIVE Reach(_, _), PathNodes(_, _), Tree(_, _)

Range(s) == {s[i] : i \in 1..Len(s)}

\* the ids of the nodes under id, id included
Reach(H, id) ==
    {id} \cup UNION {Reach(H, k) : k \in Range(H.nodes[id].kids)}

\* <<path, node id>> for every node under id; a path is the get_type() of
\* each node on the way down
PathNodes(H, id) ==
    {<< <<>>, id >>} \cup
    UNION { { << <<GetType(H.nodes[k])>> \o pn[1], pn[2] >> : pn \in PathNodes(H, k) }
            : k \in Range(H.nodes[id].kids) }

\* the subtree of id as a value, without ids
Tree(H, id) ==
    LET n == H.nodes[id]
    IN [cls |-> n.cls, lhs |-> n.lhs, count |-> n.count, falsy |-> n.falsy,
        val |-> n.val, kids |-> [i \in 1..Len(n.kids) |-> Tree(H, n.kids[i])]]

\* count and count_falsy of every node under id, by path
MetaTree(H, id) ==
    { <<pn[1], H.nodes[pn[2]].count, H.nodes[pn[2]].falsy>> : pn \in PathNodes(H, id) }

Held == {r \in Regs : reg[r] # 0}
Disjoint(r1, r2) == Reach(heap, reg[r1]) \cap Reach(heap, reg[r2]) = {}

---------------------------------------------------------------------------
(* main(): the root is BaseParse(generator of the decoded lines); its      *)
(* _set_parse loop consumes one document per iteration; then the report.   *)

MainInit ==
    /\ heap = Alloc(EmptyHeap, Node(BaseNew(VGen(<<>>)), <<>>, SetMeta(VGen(<<>>)))).h
    /\ list_parse = 1
    /\ docs = <<>>
    /\ result = NoReport
    /\ reg = [r \in Regs |-> 0]
    /\ hist = [r \in Regs |-> <<>>]
    /\ sound = [r \in Regs |-> TRUE]

\* one iteration of "for item in value" over the generator
Feed(d) ==
    /\ result = NoReport
    /\ Len(docs) < MaxDocs
    /\ heap' = ListSetParseItem(heap, list_parse, d)
    /\ docs' = Append(docs, d)
    /\ UNCHANGED <<list_parse, result, reg, hist, sound>>

\* the generator is exhausted: vars(), then brief_vars unless --verbose
Report(verbose) ==
    /\ result = NoReport
    /\ result' = IF verbose THEN <<"full", Vars(heap, list_parse)>>
                 ELSE <<"brief", BriefVars(Vars(heap, list_parse))>>
    /\ UNCHANGED <<heap, list_parse, docs, reg, hist, sound>>

Next ==
    \/ \E d \in DocSet : Feed(d)
    \/ \E verbose \in BOOLEAN : Report(verbose)

Spec == MainInit /\ [][Next]_vars

---------------------------------------------------------------------------
(* A caller of the classes: it classifies values and merges the nodes it   *)
(* holds.                                                                  *)

ApiInit ==
    /\ heap = EmptyHeap
    /\ list_parse = 0
    /\ docs = <<>>
    /\ result = NoReport
    /\ reg = [r \in Regs |-> 0]
    /\ hist = [r \in Regs |-> <<>>]
    /\ sound = [r \in Regs |-> TRUE]

\* r = BaseParse(v), r being the next free name
Classify(r, v) ==
    /\ Cardinality(Held) < Len(RegSeq)
    /\ r = RegSeq[Cardinality(Held) + 1]
    /\ LET c == New(heap, v)
       IN /\ heap' = c.h
          /\ reg' = [reg EXCEPT ![r] = c.id]
    /\ hist' = [hist EXCEPT ![r] = <<v>>]
    /\ UNCHANGED <<list_parse, docs, result, sound>>

\* r1.merge(r2), for two held nodes of one class
MergeRegs(r1, r2) ==
    /\ r1 # r2
    /\ reg[r1] # 0
    /\ reg[r2] # 0
    /\ heap.nodes[reg[r1]].cls = heap.nodes[reg[r2]].cls
    /\ Len(hist[r1]) + Len(hist[r2]) <= MaxHist
    /\ heap' = Merge(heap, reg[r1], reg[r2])
    /\ hist' = [hist EXCEPT ![r1] = hist[r1] \o hist[r2]]
    /\ sound' = [r \in Regs |->
                   IF r = r1 THEN sound[r1] /\ sound[r2] /\ Disjoint(r1, r2)
                   ELSE sound[r] /\ (reg[r] = 0 \/ Disjoint(r, r1))]
    /\ UNCHANGED <<list_parse, docs, result, reg>>

ApiNext ==
    \/ \E r \in Regs, v \in ApiSet : Classify(r, v)
    \/ \E r1, r2 \in Regs : MergeRegs(r1, r2)

SpecApi == ApiInit /\ [][ApiNext]_vars

---------------------------------------------------------------------------
(* What the documents hold at a path, read off the documents themselves.   *)

\* the kind-tag of a decoded value
RefTag(v) ==
    <<"$", CASE v.kind = "null" -> "none"
             [] v.kind = "gen" -> "list"
             [] OTHER -> v.kind>>

RECURSIVE ObsAt(_, _), ObsItems(_, _)

FieldOf(pairs, f) == pairs[CHOOSE i \in 1..Len(pairs) : pairs[i][1] = f][2]
HasField(pairs, f) == \E i \in 1..Len(pairs) : pairs[i][1] = f

\* the values found at path p below the value v, in document order; at the
\* path of a field it is the field's values
ObsAt(v, p) ==
    IF p = <<>> THEN <<v>>
    ELSE IF v.kind \in {"list", "gen"} THEN ObsItems(v.val, p)
    ELSE IF v.kind = "dict" /\ HasField(v.val, p[1])
         THEN LET w == FieldOf(v.val, p[1])
              IN IF Len(p) = 1 THEN <<w>>
                 ELSE IF RefTag(w) = p[2] THEN ObsAt(w, Tail(Tail(p)))
                 ELSE <<>>
    ELSE <<>>

ObsItems(items, p) ==
    IF items = <<>> THEN <<>>
    ELSE (IF RefTag(items[1]) = p[1] THEN ObsAt(items[1], Tail(p)) ELSE <<>>)
         \o ObsItems(Tail(items), p)

RECURSIVE ObsAll(_, _)
\* the same over several values merged into one node
ObsAll(vs, p) ==
    IF vs = <<>> THEN <<>> ELSE ObsAt(vs[1], p) \o ObsAll(Tail(vs), p)

IsMax(x, obs) ==
    /\ \E i \in 1..Len(obs) : obs[i] = x
    /\ \A i \in 1..Len(obs) : obs[i].val <= x.val

\* the first truthy value of obs, its last value when none is truthy
FirstTruthy(obs) ==
    IF \E i \in 1..Len(obs) : Truthy(obs[i])
    THEN obs[CHOOSE i \in 1..Len(obs) :
                 Truthy(obs[i]) /\ \A j \in 1..(i - 1) : ~Truthy(obs[j])]
    ELSE obs[Len(obs)]

Count(obs, P(_)) == Cardinality({i \in 1..Len(obs) : P(obs[i])})

NodeAt(r) == heap.nodes[reg[r]]
TruthyPref == {"BoolParse", "StrParse", "NoneParse"}
Numeric == {"IntParse", "FloatParse"}

---------------------------------------------------------------------------
(* C1: the node freshly built from a value of any of the seven kinds has   *)
(* count = 1, and count_falsy = 1 if the value is falsy or empty, else 0.  *)
C1_FreshMeta ==
    \A r \in Held :
        (Len(hist[r]) = 1 /\ sound[r]) =>
            /\ NodeAt(r).count = 1
            /\ NodeAt(r).falsy = (IF Truthy(hist[r][1]) THEN 0 ELSE 1)

(* C2, as claimed: when at least one of the merged bool, string or null    *)
(* observations is truthy, the retained value does not depend on the       *)
(* order of the merge.                                                     *)
C2_OrderFree ==
    \A r1, r2 \in Held :
        ( /\ r1 # r2 /\ sound[r1] /\ sound[r2] /\ Disjoint(r1, r2)
          /\ NodeAt(r1).cls \in TruthyPref
          /\ NodeAt(r1).cls = NodeAt(r2).cls
          /\ \E i \in 1..Len(hist[r1] \o hist[r2]) : Truthy((hist[r1] \o hist[r2])[i]) )
        => Merge(heap, reg[r1], reg[r2]).nodes[reg[r1]].val
             = Merge(heap, reg[r2], reg[r1]).nodes[reg[r2]].val

(* C2, amended: a bool, string or null node retains the first truthy       *)
(* observation in merge order (the last observation when none is truthy),  *)
(* so the order is immaterial exactly when the truthy observations are     *)
(* all equal.                                                              *)
C2_FirstTruthy ==
    \A r \in Held :
        (sound[r] /\ NodeAt(r).cls \in TruthyPref) =>
            /\ NodeAt(r).val = FirstTruthy(hist[r])
            /\ ( \A i, j \in 1..Len(hist[r]) :
                    (Truthy(hist[r][i]) /\ Truthy(hist[r][j])) => hist[r][i] = hist[r][j] )
               => \A i \in 1..Len(hist[r]) :
                      Truthy(hist[r][i]) => NodeAt(r).val = hist[r][i]

C2_Witness ==
    \E r \in Held :
        /\ sound[r] /\ NodeAt(r).cls = "StrParse" /\ Len(hist[r]) = 3
        /\ ~Truthy(hist[r][1]) /\ Truthy(hist[r][2]) /\ hist[r][3] = hist[r][2]

(* C3: metadata merge is associative and commutative at every node: for    *)
(* same-shape nodes a, b, c, (a merge b) merge c and a merge (b merge c),  *)
(* and a merge b and b merge a, give the same count and count_falsy at     *)
(* every path; merging a node with a structural copy doubles both.         *)
C3_MetaAlgebra ==
    \A a, b \in Held :
        ( /\ a # b /\ sound[a] /\ sound[b] /\ Disjoint(a, b)
          /\ NodeAt(a).cls = NodeAt(b).cls )
        => /\ MetaTree(Merge(heap, reg[a], reg[b]), reg[a])
                = MetaTree(Merge(heap, reg[b], reg[a]), reg[b])
           /\ Tree(heap, reg[a]) = Tree(heap, reg[b]) =>
                MetaTree(Merge(heap, reg[a], reg[b]), reg[a])
                  = { <<m[1], 2 * m[2], 2 * m[3]>> : m \in MetaTree(heap, reg[a]) }
           /\ \A c \in Held :
                ( /\ c # a /\ c # b /\ sound[c] /\ Disjoint(a, c) /\ Disjoint(b, c)
                  /\ NodeAt(c).cls = NodeAt(a).cls )
                => MetaTree(Merge(Merge(heap, reg[a], reg[b]), reg[a], reg[c]), reg[a])
                     = MetaTree(Merge(Merge(heap, reg[b], reg[c]), reg[a], reg[b]), reg[a])

C3_Witness ==
    \E a, b, c \in Held :
        /\ a # b /\ b # c /\ a # c
        /\ sound[a] /\ sound[b] /\ sound[c]
        /\ Disjoint(a, b) /\ Disjoint(a, c) /\ Disjoint(b, c)
        /\ NodeAt(a).cls = "ListParse" /\ NodeAt(b).cls = "ListParse"
        /\ NodeAt(c).cls = "ListParse"
        /\ Len(hist[a]) = 2
        /\ Cardinality(Reach(heap, reg[a])) >= 4
        /\ Tree(heap, reg[b]) # Tree(heap, reg[c])
        /\ Cardinality(Reach(heap, reg[c])) >= 4

(* C4: an int or float node holds the largest int or float observed at     *)
(* its path in the values merged into it, in whatever order they were      *)
(* merged, and its count is the number of those observations.              *)
C4_NumericMax ==
    \A r \in Held :
        sound[r] =>
            \A pn \in PathNodes(heap, reg[r]) :
                heap.nodes[pn[2]].cls \in Numeric =>
                    /\ IsMax(heap.nodes[pn[2]].val, ObsAll(hist[r], pn[1]))
                    /\ heap.nodes[pn[2]].count = Len(ObsAll(hist[r], pn[1]))

C4_Witness ==
    \E r \in Held :
        /\ sound[r] /\ Len(hist[r]) = 2
        /\ \E pn \in PathNodes(heap, reg[r]) :
              /\ heap.nodes[pn[2]].cls = "IntParse"
              /\ pn[1] # <<>>
              /\ heap.nodes[pn[2]].count = 3
              /\ heap.nodes[pn[2]].val = VInt(2)
              /\ ObsAll(hist[r], pn[1])[1] = VInt(1)

---------------------------------------------------------------------------
(* Claims about the tree main() builds.                                    *)

TreeNodes == PathNodes(heap, list_parse)
DocObs(p) == ObsAt(VGen(docs), p)
KidsOf(n) == {heap.nodes[k] : k \in Range(n.kids)}
FieldNames(recs) ==
    UNION { {rec.val[i][1] : i \in 1..Len(rec.val)} : rec \in Range(recs) }
\* the elements of the lists among obs
Elements(obs) ==
    UNION { Range(o.val) : o \in {x \in Range(obs) : x.kind \in {"list", "gen"}} }

(* C5: after folding documents, an object node has exactly one field node  *)
(* per field name seen; the field node's count is the number of records    *)
(* holding the field (at most the object's count, less when a record lacks *)
(* the field); it has exactly one child per kind the field's value took,   *)
(* and a scalar child's count is the number of records where the field     *)
(* held that kind.                                                         *)
C5_Fields ==
    \A pn \in TreeNodes :
        LET n == heap.nodes[pn[2]]
            recs == DocObs(pn[1])
        IN n.cls = "DictParse" =>
            /\ n.count = Len(recs)
            /\ {k.lhs : k \in KidsOf(n)} = FieldNames(recs)
            /\ \A f \in FieldNames(recs) :
                /\ Cardinality({i \in 1..Len(n.kids) : heap.nodes[n.kids[i]].lhs = f}) = 1
                /\ LET kv == CHOOSE k \in KidsOf(n) : k.lhs = f
                       held == Count(recs, LAMBDA x : HasField(x.val, f))
                       fobs == DocObs(pn[1] \o <<f>>)
                   IN /\ kv.cls = "KeyValueParse"
                      /\ kv.count = held
                      /\ kv.count <= n.count
                      /\ (held < Len(recs)) => kv.count < n.count
                      /\ {GetType(c) : c \in KidsOf(kv)} = {RefTag(w) : w \in Range(fobs)}
                      /\ Len(kv.kids) = Cardinality({RefTag(w) : w \in Range(fobs)})
                      /\ \A c \in KidsOf(kv) :
                            c.cls \in ValueClasses =>
                                c.count = Count(fobs, LAMBDA w : RefTag(w) = GetType(c))

C5_Witness ==
    /\ Len(docs) = 3
    /\ docs[1] = VDict(<< <<A1, VInt(1)>> >>)
    /\ docs[2] = VDict(<< <<A1, VStr(A1)>> >>)
    /\ docs[3] = VDict(<<>>)
    /\ \E pn \in TreeNodes :
          /\ pn[1] = << <<"$", "dict">>, A1 >>
          /\ heap.nodes[pn[2]].count = 2
          /\ {<<c.cls, c.count, c.val>> : c \in KidsOf(heap.nodes[pn[2]])}
               = { <<"IntParse", 1, VInt(1)>>, <<"StrParse", 1, VStr(A1)>> }

RECURSIVE RowPaths(_, _)

KindName(cls) ==
    CASE cls = "BoolParse" -> <<"bool">>
      [] cls = "IntParse" -> <<"int">>
      [] cls = "FloatParse" -> <<"float">>
      [] cls = "StrParse" -> <<"str">>
      [] cls = "NoneParse" -> <<"none">>
      [] cls = "ListParse" -> <<"list">>
      [] OTHER -> <<"dict">>

\* every node under id with the field names and the kinds on the way to it
RowPaths(H, id) ==
    {[names |-> <<>>, kinds |-> <<>>, id |-> id]} \cup
    UNION { { [names |-> (IF H.nodes[k].cls = "KeyValueParse"
                          THEN <<H.nodes[k].lhs>> ELSE <<>>) \o x.names,
               kinds |-> (IF H.nodes[k].cls = "KeyValueParse"
                          THEN <<>> ELSE <<KindName(H.nodes[k].cls)>>) \o x.kinds,
               id |-> x.id] : x \in RowPaths(H, k) }
            : k \in Range(H.nodes[id].kids) }

Plain(name) == \A i \in 1..Len(name) : name[i] \notin {"$", "."}
Rows == result[2]
Cell(row, key) == Lookup(row.val, key).val
RowFor(x) ==
    VMap(<< <<KCount, VInt(heap.nodes[x.id].count)>>,
            <<KFalsy, VInt(heap.nodes[x.id].falsy)>>,
            <<KParse, heap.nodes[x.id].val>>,
            <<KType, VStr(Join(x.kinds))>>,
            <<KKey, VStr(Join(x.names))>> >>)

(* C7, as claimed: the brief report has exactly one row per leaf of the    *)
(* merged tree (scalars, empty lists and empty objects), each with a       *)
(* non-empty $type and a $key that is the dot-joined field names on the    *)
(* path to the leaf.                                                       *)
C7_RowPerLeaf ==
    (result[1] = "brief" /\ docs # <<>>) =>
        LET leaves == {x \in RowPaths(heap, list_parse) : heap.nodes[x.id].kids = <<>>}
        IN /\ Len(Rows) = Cardinality(leaves)
           /\ \A i \in 1..Len(Rows) : Cell(Rows[i], KType) # <<>>
           /\ \A i \in 1..Len(Rows) :
                 \E x \in leaves : /\ Cell(Rows[i], KKey) = Join(x.names)
                                   /\ Cell(Rows[i], KType) = Join(x.kinds)

(* C7, amended: the brief report has exactly one row per scalar node of    *)
(* the merged tree (an empty list or object gives no row), each with a     *)
(* non-empty $type; when the field names on the path hold no "." and no    *)
(* "$", the row carries the node's count, count_falsy and parse, the       *)
(* dot-joined kinds as $type and the dot-joined field names as $key.       *)
C7_RowPerScalar ==
    result[1] = "brief" =>
        LET scalars == {x \in RowPaths(heap, list_parse) :
                            heap.nodes[x.id].cls \in ValueClasses}
        IN /\ Len(Rows) = Cardinality(scalars)
           /\ \A i, j \in 1..Len(Rows) : Rows[i] = Rows[j] => i = j
           /\ \A i \in 1..Len(Rows) : Cell(Rows[i], KType) # <<>>
           /\ \A x \in scalars :
                 (\A i \in 1..Len(x.names) : Plain(x.names[i])) =>
                     \E i \in 1..Len(Rows) : Rows[i] = RowFor(x)

C7_Witness ==
    /\ result[1] = "brief"
    /\ Len(Rows) >= 3
    /\ \E i \in 1..Len(Rows) : Cell(Rows[i], KKey) = <<"a", ".", "b">>
    /\ \E x \in RowPaths(heap, list_parse) :
          /\ x.id # list_parse
          /\ heap.nodes[x.id].cls \in {"ListParse", "DictParse"}
          /\ heap.nodes[x.id].kids = <<>>

(* C10: while main() folds documents of any shapes, every merge is between *)
(* two nodes of one class and every field-node merge between two nodes of  *)
(* one field name (the DEBUG assertions would not fail), and no list,      *)
(* field or object node holds two children of one key.                     *)
C10_NoMismatch ==
    /\ ~heap.typeErr
    /\ ~heap.lhsErr
    /\ \A pn \in TreeNodes :
          LET n == heap.nodes[pn[2]]
          IN \A i, j \in 1..Len(n.kids) :
                GetType(heap.nodes[n.kids[i]]) = GetType(heap.nodes[n.kids[j]]) => i = j

C10_Witness ==
    /\ Len(docs) = 3
    /\ Len(heap.nodes[list_parse].kids) = 2
    /\ \E pn \in TreeNodes :
          /\ heap.nodes[pn[2]].cls = "KeyValueParse"
          /\ heap.nodes[pn[2]].count = 2
          /\ Len(heap.nodes[pn[2]].kids) = 2
    /\ \E pn \in TreeNodes :
          /\ Len(pn[1]) = 2
          /\ heap.nodes[pn[2]].cls = "ListParse"
          /\ heap.nodes[pn[2]].count >= 2

---------------------------------------------------------------------------
(* Claims about nodes a caller holds.                                      *)

\* the nodes a caller can still reach (temporaries of _set_parse are gone)
Live == UNION {Reach(heap, reg[r]) : r \in Held}
Parents(id) == {p \in Live : id \in Range(heap.nodes[p].kids)}

(* C8: every child node is owned by exactly one parent: no node is under   *)
(* two held nodes and none has two parents, so a merge into one held node  *)
(* cannot change what another reports.                                     *)
C8_NoSharing ==
    /\ \A r1, r2 \in Held : r1 # r2 => Disjoint(r1, r2)
    /\ \A id \in Live : Cardinality(Parents(id)) <= 1

RECURSIVE FoldSingletons(_, _, _)

\* ListParse([e]) for each further element e, merged left to right into first
FoldSingletons(H, first, items) ==
    IF items = <<>> THEN H
    ELSE LET c == New(H, VList(<<items[1]>>))
         IN FoldSingletons(Merge(c.h, first, c.id), first, Tail(items))

MergedSingletons(items) ==
    LET c == New(EmptyHeap, VList(<<items[1]>>))
    IN [h |-> FoldSingletons(c.h, c.id, Tail(items)), id |-> c.id]

ChildMap(H, id) == {Tree(H, k) : k \in Range(H.nodes[id].kids)}

(* C9: the list node built from [e1, ..., en], n >= 1, has the same        *)
(* children (kinds, counts, falsy counts, values, nested children) as the  *)
(* n singleton list nodes [e1], ..., [en] merged left to right into the    *)
(* first.                                                                  *)
C9_ListAsMerge ==
    \A r \in Held :
        ( /\ sound[r] /\ Len(hist[r]) = 1
          /\ hist[r][1].kind = "list" /\ hist[r][1].val # <<>> )
        => LET m == MergedSingletons(hist[r][1].val)
           IN /\ ChildMap(heap, reg[r]) = ChildMap(m.h, m.id)
              /\ Len(NodeAt(r).kids) = Len(m.h.nodes[m.id].kids)

C9_Witness ==
    \E r \in Held :
        /\ sound[r] /\ Len(hist[r]) = 1
        /\ hist[r][1] = VList(<<VInt(1), VInt(0), VList(<<VStr(B1)>>)>>)
        /\ Len(NodeAt(r).kids) = 2

===========================================================================
